---- MODULE Spec2Model ----
(***************************************************************************)
(* Model of whisper-tranny.py: AudioRecorder, TranscriptionWorker and      *)
(* MainWindow.  The interactive (GUI) thread runs one handler at a time;   *)
(* the audio callback thread and the worker threads interleave with it.    *)
(***************************************************************************)
EXTENDS Naturals, Integers, Sequences, FiniteSets, TLC

(* ------------------------------ bounds --------------------------------- *)
MaxFrames == 2
MaxWorkers == 2

(* ------------------------------ domains -------------------------------- *)
Samples == {0, 1}
Chunks == UNION {[1..n -> Samples] : n \in 1..MaxFrames}
WorkerIds == 1..MaxWorkers
Paths == {"tmp1.wav", "tmp2.wav"}   \* names tempfile.mktemp can return
None == "None"

Whitespace == {" ", "\n"}
ModelTexts == {<<"\n">>, <<" ", "a", " ", "b", "\n">>}
ExceptionTexts == {<<"e">>}
NotInstalledText == <<"Whisper nicht installiert!">>

VARIABLES
    WHISPER_AVAILABLE,   \* module flag set by the import of whisper
    app_alive,           \* FALSE once an exception left a slot (qFatal)
    recording,           \* AudioRecorder.recording
    audio_data,          \* AudioRecorder.audio_data, a sequence of chunks
    session_chunks,      \* history: the chunks the callback appended since the
                         \* most recent call of AudioRecorder.start()
    stream,              \* AudioRecorder.stream: "none", "open", "active", "closed"
    cb_pc,               \* audio callback thread: "idle" or "checked"
    main_pc,             \* GUI thread: "idle", or "stream_stop" inside stop_recording
    audio,               \* stop_recording's local audio: the samples returned by
                         \* recorder.stop() in this cycle, << >> before it
    is_recording,        \* MainWindow.is_recording
    temp_audio_path,     \* MainWindow.temp_audio_path
    record_btn,          \* [text, enabled] of the record control
    status_label,        \* text of the status line, a sequence of tokens
    progress_visible,    \* the progress bar is shown
    transcript_edit,     \* text of the transcript display
    copy_btn_enabled,    \* the copy action is enabled
    clipboard,           \* text on the system clipboard
    workers,             \* worker threads: [pc, audio_path, emits]
    signals,             \* queued worker signals awaiting delivery to the GUI thread
    files,               \* staged files that exist on disk
    last                 \* the step taken last: [op, arg, path]

vars == <<WHISPER_AVAILABLE, app_alive, recording, audio_data, session_chunks,
          stream, cb_pc,
          main_pc, audio, is_recording, temp_audio_path, record_btn,
          status_label, progress_visible, transcript_edit, copy_btn_enabled,
          clipboard, workers, signals, files, last>>

recorder_vars == <<recording, audio_data, session_chunks, stream, cb_pc, audio>>
window_vars == <<is_recording, temp_audio_path, record_btn, status_label,
                 progress_visible, transcript_edit, copy_btn_enabled, clipboard>>
worker_vars == <<workers, signals>>

Step(op, arg, path) == [op |-> op, arg |-> arg, path |-> path]

(* --------------------------- pure functions ---------------------------- *)
\* Mutant of concatenate: the chunks joined newest first.
RECURSIVE concatenate_reversed(_)
concatenate_reversed(chunks) ==
    IF chunks = << >> THEN << >>
    ELSE concatenate_reversed(Tail(chunks)) \o Head(chunks)

RECURSIVE concatenate(_)
concatenate(chunks) ==
    IF chunks = << >> THEN << >>
    ELSE Head(chunks) \o concatenate(Tail(chunks))

RECURSIVE lstrip(_)
lstrip(s) ==
    IF s # << >> /\ Head(s) \in Whitespace THEN lstrip(Tail(s)) ELSE s

RECURSIVE rstrip(_)
rstrip(s) ==
    IF s # << >> /\ s[Len(s)] \in Whitespace
    THEN rstrip(SubSeq(s, 1, Len(s) - 1)) ELSE s

\* Mutant of strip: only the leading whitespace removed.
strip_leading_only(s) == lstrip(s)

strip(s) == rstrip(lstrip(s))

(* ------------------------------ Init ----------------------------------- *)
NoWorker == [pc |-> "none", audio_path |-> None, emits |-> 0]

Init ==
    /\ WHISPER_AVAILABLE \in BOOLEAN
    /\ app_alive = TRUE
    /\ recording = FALSE
    /\ audio_data = << >>
    /\ session_chunks = << >>
    /\ stream = "none"
    /\ cb_pc = "idle"
    /\ main_pc = "idle"
    /\ audio = << >>
    /\ is_recording = FALSE
    /\ temp_audio_path = None
    /\ record_btn = [text |-> "start", enabled |-> TRUE]
    /\ status_label = <<"Bereit">>
    /\ progress_visible = FALSE
    /\ transcript_edit = << >>
    /\ copy_btn_enabled = FALSE
    /\ clipboard = << >>
    /\ workers = [w \in WorkerIds |-> NoWorker]
    /\ signals = << >>
    /\ files = {}
    /\ last = Step("init", << >>, None)

(* ---------------------------- AudioRecorder ---------------------------- *)
\* Mutant of recorder_start: the buffer is not reset.
recorder_start_keeps_buffer ==
    /\ UNCHANGED audio_data
    /\ recording' = TRUE
    /\ stream' = "active"

\* AudioRecorder.start, the stream opened and started.
recorder_start ==
    /\ audio_data' = << >>
    /\ recording' = TRUE
    /\ stream' = "active"

\* Mutant of recorder_start_raises: the buffer is not reset.
recorder_start_raises_keeps_buffer ==
    /\ UNCHANGED audio_data
    /\ recording' = TRUE
    /\ stream' \in {stream, "open"}

\* AudioRecorder.start raising a device error: sd.InputStream(...) raises and
\* self.stream keeps its old value, or stream.start() raises on the new,
\* opened stream.
recorder_start_raises ==
    /\ audio_data' = << >>
    /\ recording' = TRUE
    /\ stream' \in {stream, "open"}

\* callback, line 44: the audio thread tests self.recording.
CallbackCheck ==
    /\ app_alive
    /\ stream = "active"
    /\ cb_pc = "idle"
    /\ recording
    /\ Len(concatenate(audio_data)) < MaxFrames
    /\ cb_pc' = "checked"
    /\ last' = Step("callback_check", << >>, None)
    /\ UNCHANGED <<WHISPER_AVAILABLE, app_alive, recording, audio_data,
                   session_chunks, stream, main_pc, audio, window_vars,
                   worker_vars, files>>

\* callback, line 45: the audio thread appends a copy of indata.
CallbackAppend ==
    /\ app_alive
    /\ cb_pc = "checked"
    /\ \E indata \in Chunks :
         /\ Len(concatenate(audio_data)) + Len(indata) <= MaxFrames
         /\ audio_data' = Append(audio_data, indata)
         /\ session_chunks' = Append(session_chunks, indata)
    /\ cb_pc' = "idle"
    /\ last' = Step("callback_append", << >>, None)
    /\ UNCHANGED <<WHISPER_AVAILABLE, app_alive, recording, stream,
                   main_pc, audio, window_vars, worker_vars, files>>

\* Mutant of stream_stop_returns: stop() does not wait for the callback.
stream_stop_no_wait == TRUE

\* stream.stop() returns only once the audio thread has left the callback.
stream_stop_returns == cb_pc = "idle"

\* AudioRecorder.stop, lines 60-62: the value returned.
recorder_stop_result ==
    IF audio_data # << >> THEN concatenate(audio_data) ELSE << >>

(* ------------------------------ MainWindow ----------------------------- *)
GuiReady == app_alive /\ main_pc = "idle"

\* toggle_recording -> start_recording, recorder.start() succeeded.
StartRecording ==
    /\ GuiReady
    /\ record_btn.enabled
    /\ ~is_recording
    /\ recorder_start
    /\ session_chunks' = << >>
    /\ audio' = << >>
    /\ is_recording' = TRUE
    /\ record_btn' = [record_btn EXCEPT !.text = "stop"]
    /\ status_label' = <<"Aufnahme laeuft">>
    /\ last' = Step("start_recording", << >>, None)
    /\ UNCHANGED <<WHISPER_AVAILABLE, app_alive, cb_pc, main_pc,
                   temp_audio_path, progress_visible, transcript_edit,
                   copy_btn_enabled, clipboard, worker_vars, files>>

\* toggle_recording -> start_recording, recorder.start() raised: the except
\* branch shows the alert and changes no field of the window.
StartRecordingDeviceError ==
    /\ GuiReady
    /\ record_btn.enabled
    /\ ~is_recording
    /\ recorder_start_raises
    /\ session_chunks' = << >>
    /\ audio' = << >>
    /\ last' = Step("start_recording_error", << >>, None)
    /\ UNCHANGED <<WHISPER_AVAILABLE, app_alive, cb_pc, main_pc,
                   window_vars, worker_vars, files>>

\* toggle_recording -> stop_recording, lines 212-213: up to the call of
\* stream.stop(), which blocks the GUI thread.
StopRecordingBegin ==
    /\ GuiReady
    /\ record_btn.enabled
    /\ is_recording
    /\ is_recording' = FALSE
    /\ recording' = FALSE
    /\ main_pc' = "stream_stop"
    /\ last' = Step("stop_recording_begin", << >>, None)
    /\ UNCHANGED <<WHISPER_AVAILABLE, app_alive, audio_data, session_chunks,
                   stream, cb_pc,
                   audio, temp_audio_path, record_btn, status_label,
                   progress_visible, transcript_edit, copy_btn_enabled,
                   clipboard, worker_vars, files>>

\* Mutant of stopped_record_btn: setEnabled(False) left out.
stopped_record_btn_enabled == [text |-> "start", enabled |-> TRUE]

\* The record control as stop_recording leaves it at line 228.
stopped_record_btn == [text |-> "start", enabled |-> FALSE]

FreeWorkers == {w \in WorkerIds : workers[w].pc \in {"none", "finished"}}

\* Lines 245-248: a new TranscriptionWorker on the staged path, started.
start_worker(path) ==
    LET w == CHOOSE x \in FreeWorkers : \A y \in FreeWorkers : x <= y
    IN workers' = [workers EXCEPT
                     ![w] = [pc |-> "started", audio_path |-> path, emits |-> 0]]

\* Mutant of stop_recording_empty: the record control is not re-enabled.
stop_recording_empty_stays_disabled ==
    /\ status_label' = <<"Keine Audio-Daten aufgenommen">>
    /\ record_btn' = [text |-> "start", enabled |-> FALSE]
    /\ UNCHANGED <<temp_audio_path, progress_visible, workers, files>>

\* stop_recording, lines 230-233: nothing was captured.
stop_recording_empty ==
    /\ status_label' = <<"Keine Audio-Daten aufgenommen">>
    /\ record_btn' = [stopped_record_btn EXCEPT !.enabled = TRUE]
    /\ UNCHANGED <<temp_audio_path, progress_visible, workers, files>>

\* stop_recording, lines 235-248: stage the file and start the worker.
stop_recording_transcribe ==
    /\ FreeWorkers # {}
    /\ record_btn' = stopped_record_btn
    /\ \E path \in Paths \ files :
         /\ temp_audio_path' = path
         /\ files' = files \cup {path}
         /\ start_worker(path)
    /\ status_label' = <<"Transkribiere", Len(audio')>>
    /\ progress_visible' = TRUE

\* stop_recording from the return of stream.stop() to its end.
StopRecordingFinish ==
    /\ app_alive
    /\ main_pc = "stream_stop"
    /\ stream_stop_returns
    /\ stream' = "closed"
    /\ audio' = recorder_stop_result
    /\ IF Len(audio') = 0 THEN stop_recording_empty
                          ELSE stop_recording_transcribe
    /\ main_pc' = "idle"
    /\ last' = Step("stop_recording", << >>,
                    IF Len(audio') = 0 THEN None ELSE temp_audio_path')
    /\ UNCHANGED <<WHISPER_AVAILABLE, app_alive, recording, audio_data,
                   session_chunks, cb_pc,
                   is_recording, transcript_edit, copy_btn_enabled, clipboard,
                   signals>>

\* stop_recording, stream.stop() or stream.close() raises: the exception
\* leaves the slot and the application is aborted.
StopRecordingStreamError ==
    /\ app_alive
    /\ main_pc = "stream_stop"
    /\ \/ stream' = "active"
       \/ stream_stop_returns /\ stream' = "open"
    /\ app_alive' = FALSE
    /\ main_pc' = "idle"
    /\ last' = Step("stop_recording_stream_error", << >>, None)
    /\ UNCHANGED <<WHISPER_AVAILABLE, recording, audio_data, session_chunks,
                   cb_pc, audio,
                   window_vars, worker_vars, files>>

\* stop_recording, save_to_file raises at line 237, with or without the file
\* created: the exception leaves the slot and the application is aborted.
StopRecordingSaveError ==
    /\ app_alive
    /\ main_pc = "stream_stop"
    /\ stream_stop_returns
    /\ stream' = "closed"
    /\ audio' = recorder_stop_result
    /\ Len(audio') # 0
    /\ record_btn' = stopped_record_btn
    /\ \E path \in Paths \ files :
         /\ temp_audio_path' = path
         /\ files' \in {files, files \cup {path}}
         /\ last' = Step("stop_recording_save_error", << >>, path)
    /\ app_alive' = FALSE
    /\ main_pc' = "idle"
    /\ UNCHANGED <<WHISPER_AVAILABLE, recording, audio_data, session_chunks,
                   cb_pc,
                   is_recording, status_label, progress_visible,
                   transcript_edit, copy_btn_enabled, clipboard, worker_vars>>

\* Mutant of unlink_temp_audio: the staged file is left on disk.
unlink_temp_audio_skipped == files

\* Lines 260-261 and 269-270: the cleanup of the staged file.
unlink_temp_audio ==
    IF temp_audio_path # None THEN files \ {temp_audio_path} ELSE files

\* Mutant of on_transcription_done: progress.hide() left out.
on_transcription_done_keeps_progress(text) ==
    /\ UNCHANGED progress_visible
    /\ record_btn' = [record_btn EXCEPT !.enabled = TRUE]
    /\ status_label' = <<"Fertig!">>
    /\ transcript_edit' = strip(text)
    /\ copy_btn_enabled' = TRUE
    /\ files' = unlink_temp_audio

\* on_transcription_done(text), the slot of the worker's finished signal.
on_transcription_done(text) ==
    /\ progress_visible' = FALSE
    /\ record_btn' = [record_btn EXCEPT !.enabled = TRUE]
    /\ status_label' = <<"Fertig!">>
    /\ transcript_edit' = strip(text)
    /\ copy_btn_enabled' = TRUE
    /\ files' = unlink_temp_audio

\* Mutant of on_transcription_error: setEnabled(True) left out.
on_transcription_error_keeps_disabled(error) ==
    /\ progress_visible' = FALSE
    /\ UNCHANGED record_btn
    /\ status_label' = <<"Fehler: ">> \o error
    /\ files' = unlink_temp_audio
    /\ UNCHANGED <<transcript_edit, copy_btn_enabled>>

\* Mutant of on_transcription_error: it also disables the copy action.
on_transcription_error_disables_copy(error) ==
    /\ progress_visible' = FALSE
    /\ record_btn' = [record_btn EXCEPT !.enabled = TRUE]
    /\ status_label' = <<"Fehler: ">> \o error
    /\ files' = unlink_temp_audio
    /\ copy_btn_enabled' = FALSE
    /\ UNCHANGED transcript_edit

\* on_transcription_error(error), the slot of the worker's error signal.
on_transcription_error(error) ==
    /\ progress_visible' = FALSE
    /\ record_btn' = [record_btn EXCEPT !.enabled = TRUE]
    /\ status_label' = <<"Fehler: ">> \o error
    /\ files' = unlink_temp_audio
    /\ UNCHANGED <<transcript_edit, copy_btn_enabled>>

\* The GUI thread delivers the oldest queued signal to its slot.
DeliverFinished ==
    /\ GuiReady
    /\ signals # << >>
    /\ Head(signals).kind = "finished"
    /\ on_transcription_done(Head(signals).arg)
    /\ signals' = Tail(signals)
    /\ last' = Step("on_transcription_done", Head(signals).arg,
                    workers[Head(signals).sender].audio_path)
    /\ UNCHANGED <<WHISPER_AVAILABLE, app_alive, recorder_vars, main_pc,
                   is_recording, temp_audio_path, clipboard, workers>>

DeliverError ==
    /\ GuiReady
    /\ signals # << >>
    /\ Head(signals).kind = "error"
    /\ on_transcription_error(Head(signals).arg)
    /\ signals' = Tail(signals)
    /\ last' = Step("on_transcription_error", Head(signals).arg,
                    workers[Head(signals).sender].audio_path)
    /\ UNCHANGED <<WHISPER_AVAILABLE, app_alive, recorder_vars, main_pc,
                   is_recording, temp_audio_path, clipboard, workers>>

\* copy_all, reached by a click on the enabled copy control.
CopyAll ==
    /\ GuiReady
    /\ copy_btn_enabled
    /\ IF transcript_edit # << >>
       THEN /\ clipboard' = transcript_edit
            /\ status_label' = <<"In Zwischenablage kopiert!">>
       ELSE UNCHANGED <<clipboard, status_label>>
    /\ last' = Step("copy_all", << >>, None)
    /\ UNCHANGED <<WHISPER_AVAILABLE, app_alive, recorder_vars, main_pc,
                   is_recording, temp_audio_path, record_btn, progress_visible,
                   transcript_edit, copy_btn_enabled, worker_vars, files>>

\* Mutant of ClearTranscript: the copy control is left as it was.
ClearTranscript_keeps_copy ==
    /\ GuiReady
    /\ transcript_edit' = << >>
    /\ status_label' = <<"Bereit">>
    /\ last' = Step("clear_transcript", << >>, None)
    /\ UNCHANGED <<WHISPER_AVAILABLE, app_alive, recorder_vars, main_pc,
                   is_recording, temp_audio_path, record_btn, progress_visible,
                   copy_btn_enabled, clipboard, worker_vars, files>>

\* Mutant of ClearTranscript: it also hides the progress indicator.
ClearTranscript_hides_progress ==
    /\ GuiReady
    /\ transcript_edit' = << >>
    /\ copy_btn_enabled' = FALSE
    /\ status_label' = <<"Bereit">>
    /\ progress_visible' = FALSE
    /\ last' = Step("clear_transcript", << >>, None)
    /\ UNCHANGED <<WHISPER_AVAILABLE, app_alive, recorder_vars, main_pc,
                   is_recording, temp_audio_path, record_btn,
                   clipboard, worker_vars, files>>

\* clear_transcript.
ClearTranscript ==
    /\ GuiReady
    /\ transcript_edit' = << >>
    /\ copy_btn_enabled' = FALSE
    /\ status_label' = <<"Bereit">>
    /\ last' = Step("clear_transcript", << >>, None)
    /\ UNCHANGED <<WHISPER_AVAILABLE, app_alive, recorder_vars, main_pc,
                   is_recording, temp_audio_path, record_btn, progress_visible,
                   clipboard, worker_vars, files>>

(* -------------------------- TranscriptionWorker ------------------------ *)
Signal(kind, arg, w) == [kind |-> kind, arg |-> arg, sender |-> w]

\* self.finished.emit / self.error.emit from the worker thread: the signal
\* is queued for the GUI thread.
emit(w, kind, arg) ==
    /\ signals' = Append(signals, Signal(kind, arg, w))
    /\ workers' = [workers EXCEPT ![w].pc = "emitted", ![w].emits = @ + 1]

\* Mutant of run_except: no except clause, the exception leaves run().
run_except_missing(w, e) ==
    /\ workers' = [workers EXCEPT ![w].pc = "raised"]
    /\ UNCHANGED signals

\* The except clause of run, lines 88-89.
run_except(w, e) == emit(w, "error", e)

WorkerFrame(w, op) ==
    /\ last' = Step(op, << >>, None)
    /\ UNCHANGED <<WHISPER_AVAILABLE, app_alive, recorder_vars, main_pc,
                   window_vars, files>>

\* run, lines 81-83: the availability test.
WorkerCheckAvailable(w) ==
    /\ app_alive
    /\ workers[w].pc = "started"
    /\ IF ~WHISPER_AVAILABLE
       THEN emit(w, "error", NotInstalledText)
       ELSE /\ workers' = [workers EXCEPT ![w].pc = "loading"]
            /\ UNCHANGED signals
    /\ WorkerFrame(w, "run_check")

\* run, line 85: whisper.load_model returns or raises.
WorkerLoadModel(w) ==
    /\ app_alive
    /\ workers[w].pc = "loading"
    /\ \/ /\ workers' = [workers EXCEPT ![w].pc = "transcribing"]
          /\ UNCHANGED signals
       \/ \E e \in ExceptionTexts : run_except(w, e)
    /\ WorkerFrame(w, "run_load_model")

\* run, lines 86-87: model.transcribe reads the staged file and returns a
\* text, or raises.
WorkerTranscribe(w) ==
    /\ app_alive
    /\ workers[w].pc = "transcribing"
    /\ \/ /\ workers[w].audio_path \in files
          /\ \E text \in ModelTexts : emit(w, "finished", text)
       \/ \E e \in ExceptionTexts : run_except(w, e)
    /\ WorkerFrame(w, "run_transcribe")

\* run returns and the thread ends.
WorkerReturn(w) ==
    /\ app_alive
    /\ workers[w].pc = "emitted"
    /\ workers' = [workers EXCEPT ![w].pc = "finished"]
    /\ UNCHANGED signals
    /\ WorkerFrame(w, "run_return")

(* --------------------------- specification ----------------------------- *)
Next ==
    \/ StartRecording
    \/ StartRecordingDeviceError
    \/ CallbackCheck
    \/ CallbackAppend
    \/ StopRecordingBegin
    \/ StopRecordingFinish
    \/ StopRecordingStreamError
    \/ StopRecordingSaveError
    \/ DeliverFinished
    \/ DeliverError
    \/ CopyAll
    \/ ClearTranscript
    \/ \E w \in WorkerIds : WorkerCheckAvailable(w)
    \/ \E w \in WorkerIds : WorkerLoadModel(w)
    \/ \E w \in WorkerIds : WorkerTranscribe(w)
    \/ \E w \in WorkerIds : WorkerReturn(w)

Spec == Init /\ [][Next]_vars

\* A step of worker thread w.
WorkerStep(w) ==
    \/ WorkerCheckAvailable(w)
    \/ WorkerLoadModel(w)
    \/ WorkerTranscribe(w)
    \/ WorkerReturn(w)

\* The program under the scheduling its liveness rests on: started worker
\* threads keep running until run() returns (load_model and transcribe
\* terminate; each thread has finitely many steps, so fairness of their
\* union reaches every one), and the event loop delivers every queued signal.
FairSpec ==
    /\ Init /\ [][Next]_vars
    /\ WF_vars(\E w \in WorkerIds : WorkerStep(w))
    /\ WF_vars(DeliverFinished \/ DeliverError)

(* ------------------------------- claims -------------------------------- *)
OutcomeOps == {"on_transcription_done", "on_transcription_error"}

\* t is s without its leading and trailing whitespace.
IsTrimOf(t, s) ==
    \E i \in 1..(Len(s) + 1) : \E j \in (i - 1)..Len(s) :
        /\ t = SubSeq(s, i, j)
        /\ \A k \in 1..(i - 1) : s[k] \in Whitespace
        /\ \A k \in (j + 1)..Len(s) : s[k] \in Whitespace
        /\ t # << >> => (t[1] \notin Whitespace /\ t[Len(t)] \notin Whitespace)

\* sub occurs in s as a contiguous run.
Contains(s, sub) ==
    \E i \in 1..(Len(s) + 1) :
        /\ i + Len(sub) - 1 <= Len(s)
        /\ SubSeq(s, i, i + Len(sub) - 1) = sub

\* C1: right after on_transcription_done(text) the transcript display shows
\* text without its leading and trailing whitespace, the copy action is
\* enabled, and the file staged for the worker that sent the signal is gone.
C1_SuccessOutcome ==
    last.op = "on_transcription_done" =>
        /\ IsTrimOf(transcript_edit, last.arg)
        /\ copy_btn_enabled
        /\ last.path \notin files

C1_Witness ==
    /\ last.op = "on_transcription_done"
    /\ last.path \in Paths
    /\ transcript_edit # << >>
    /\ Len(transcript_edit) < Len(last.arg)

\* C2: right after on_transcription_error(error) the status line contains
\* the error text and the file staged for the sending worker is gone, and the
\* handler's step leaves the copy action's enabled flag as it was.
C2_ErrorOutcome ==
    /\ [](last.op = "on_transcription_error" =>
            /\ Contains(status_label, last.arg)
            /\ last.path \notin files)
    /\ [][last'.op = "on_transcription_error" =>
            copy_btn_enabled' = copy_btn_enabled]_vars

C2_Witness ==
    /\ last.op = "on_transcription_error"
    /\ last.arg # << >>
    /\ last.path \in Paths
    /\ copy_btn_enabled

\* C3: at most one staged file exists at any time, and none exists right
\* after an outcome handler has run.
C3_OneStagedFile ==
    /\ Cardinality(files) <= 1
    /\ last.op \in OutcomeOps => files = {}

C3_Witness ==
    /\ last.op \in OutcomeOps
    /\ files = {}
    /\ temp_audio_path \in Paths
    /\ copy_btn_enabled
    /\ clipboard # << >>

\* A worker thread is running from start() until run() has returned.
Running(w) == workers[w].pc \in {"started", "loading", "transcribing", "emitted"}

\* C4: no two TranscriptionWorker threads are running at the same time.
C4_OneWorkerAtATime == Cardinality({w \in WorkerIds : Running(w)}) <= 1

FailureOps == {"start_recording_error", "stop_recording_stream_error",
               "stop_recording_save_error", "on_transcription_error"}

\* C5: right after any failure of a recording cycle the window is Idle:
\* not recording, the record control enabled and labelled to start, and a
\* toggle would start a new recording.
C5_FailureLeavesIdle ==
    last.op \in FailureOps =>
        /\ ~is_recording
        /\ record_btn = [text |-> "start", enabled |-> TRUE]
        /\ GuiReady

\* C6: a stop that finds no captured chunk returns an empty sample sequence,
\* reports "no audio captured", stages no file, starts no worker, leaves the
\* progress indicator hidden and the record control enabled and labelled to
\* start, with is_recording False.
C6_EmptyStop ==
    [][(last'.op = "stop_recording" /\ audio_data = << >>) =>
          /\ audio' = << >>
          /\ status_label' = <<"Keine Audio-Daten aufgenommen">>
          /\ files' = files /\ files' = {}
          /\ workers' = workers /\ signals' = signals
          /\ ~progress_visible'
          /\ record_btn' = [text |-> "start", enabled |-> TRUE]
          /\ ~is_recording']_vars

C6_Witness ==
    /\ last.op = "stop_recording"
    /\ audio_data = << >>
    /\ stream = "closed"

BeforeEmit(w) == workers[w].pc \in {"started", "loading", "transcribing"}

\* C7: a run of the worker emits exactly one signal: none before its outcome,
\* one from then on, the step that ends the work queues exactly one signal
\* (an error when whisper is unavailable), and no exception escapes run().
C7_OneOutcome ==
    /\ [](\A w \in WorkerIds :
            /\ workers[w].pc # "raised"
            /\ BeforeEmit(w) => workers[w].emits = 0
            /\ workers[w].pc \in {"emitted", "finished"} => workers[w].emits = 1)
    /\ [][\A w \in WorkerIds :
            (BeforeEmit(w) /\ ~BeforeEmit(w)') =>
                /\ signals' = Append(signals, signals'[Len(signals')])
                /\ signals'[Len(signals')].sender = w
                /\ signals'[Len(signals')].kind \in {"finished", "error"}
                /\ ~WHISPER_AVAILABLE => signals'[Len(signals')].kind = "error"]_vars

C7_Witness ==
    \E w \in WorkerIds :
        /\ workers[w].pc = "finished"
        /\ last.op = "on_transcription_error"
        /\ last.arg \in ExceptionTexts

\* C8: once stop() has closed the stream and read the buffer, the audio
\* thread is not in the callback and the buffer still holds exactly the
\* chunks that were returned: nothing is appended at or after the read.
C8_Handoff ==
    stream = "closed" =>
        /\ cb_pc = "idle"
        /\ audio = concatenate(audio_data)

C8_Witness ==
    /\ last.op = "callback_append"
    /\ main_pc = "stream_stop"
    /\ ~recording

RECURSIVE SumLen(_)
SumLen(chunks) ==
    IF chunks = << >> THEN 0 ELSE Len(Head(chunks)) + SumLen(Tail(chunks))

\* C9: the sequence returned by stop() has the summed length of the chunks,
\* and each chunk's samples sit in it at the chunk's offset, in append order.
C9_Concatenation ==
    last.op = "stop_recording" =>
        /\ Len(audio) = SumLen(audio_data)
        /\ \A i \in 1..Len(audio_data) : \A j \in 1..Len(audio_data[i]) :
               audio[SumLen(SubSeq(audio_data, 1, i - 1)) + j] = audio_data[i][j]

C9_Witness ==
    /\ last.op = "stop_recording"
    /\ Len(audio_data) = 2
    /\ audio_data[1] # audio_data[2]

\* A worker was started and its outcome has not yet been handled.
Outstanding ==
    \/ \E w \in WorkerIds : BeforeEmit(w)
    \/ signals # << >>

WindowState ==
    IF is_recording \/ main_pc = "stream_stop" THEN "Recording"
    ELSE IF Outstanding THEN "Transcribing" ELSE "Idle"

\* C10: while the application lives, the window moves only Idle -> Recording
\* (start), Recording -> Transcribing (stop with audio), Recording -> Idle
\* (stop without audio) and Transcribing -> Idle (an outcome handler), and an
\* outcome handler runs only in Transcribing.
C10_Transitions ==
    [][app_alive' =>
        /\ WindowState' # WindowState =>
             \/ /\ WindowState = "Idle" /\ WindowState' = "Recording"
                /\ last'.op = "start_recording"
             \/ /\ WindowState = "Recording" /\ WindowState' = "Transcribing"
                /\ last'.op = "stop_recording" /\ audio' # << >>
             \/ /\ WindowState = "Recording" /\ WindowState' = "Idle"
                /\ last'.op = "stop_recording" /\ audio' = << >>
             \/ /\ WindowState = "Transcribing" /\ WindowState' = "Idle"
                /\ last'.op \in OutcomeOps
        /\ last'.op \in OutcomeOps => WindowState = "Transcribing"]_vars

C10_Witness ==
    /\ last.op \in OutcomeOps
    /\ WindowState = "Idle"
    /\ \E w \in WorkerIds : workers[w].pc = "finished"

\* C11: while a worker's outcome is outstanding the record control is
\* disabled and the progress indicator is shown; in every other state the
\* progress indicator is hidden; right after an outcome handler, success or
\* error, the progress indicator is hidden and the record control enabled.
C11_TranscribingControls ==
    /\ Outstanding => (~record_btn.enabled /\ progress_visible)
    /\ ~Outstanding => ~progress_visible
    /\ last.op \in OutcomeOps => (~progress_visible /\ record_btn.enabled)

C11_Witness ==
    /\ last.op = "on_transcription_done"
    /\ ~progress_visible
    /\ record_btn.enabled
    /\ \E w \in WorkerIds : workers[w].pc \in {"emitted", "finished"}

\* C12: under fair scheduling of the worker and of signal delivery, every
\* Transcribing state is followed by an Idle state with the record control
\* enabled, the progress indicator hidden and no staged file; and the window
\* leaves Transcribing only by an outcome handler.
C12_TranscribingEnds ==
    /\ (WindowState = "Transcribing") ~>
          (/\ WindowState = "Idle"
           /\ record_btn.enabled
           /\ ~progress_visible
           /\ files = {})
    /\ [][(WindowState = "Transcribing" /\ WindowState' # "Transcribing") =>
             last'.op \in OutcomeOps]_vars

C12_Witness ==
    /\ last.op = "on_transcription_error"
    /\ last.arg = NotInstalledText
    /\ WindowState = "Idle"
    /\ record_btn.enabled
    /\ ~progress_visible
    /\ files = {}

\* C13: right after clear_transcript, whatever the state it ran in, the
\* transcript display is empty and the copy action is disabled.
C13_Clear ==
    last.op = "clear_transcript" =>
        /\ transcript_edit = << >>
        /\ ~copy_btn_enabled

C13_Witness ==
    /\ last.op = "clear_transcript"
    /\ transcript_edit = << >>
    /\ ~copy_btn_enabled
    /\ clipboard # << >>
    /\ WindowState = "Transcribing"

\* C18: a step of clear_transcript changes nothing but the transcript
\* display, the copy action's enabled flag and the status line.
C18_ClearFrame ==
    [][last'.op = "clear_transcript" =>
          UNCHANGED <<is_recording, recording, audio_data, stream, cb_pc,
                      main_pc, audio, record_btn, progress_visible,
                      temp_audio_path, files, workers, signals, clipboard,
                      app_alive, WHISPER_AVAILABLE>>]_vars

C18_Witness ==
    /\ last.op = "clear_transcript"
    /\ progress_visible
    /\ ~record_btn.enabled
    /\ temp_audio_path \in files
    /\ \E w \in WorkerIds : workers[w].pc = "transcribing"

\* C14: in every Idle or Transcribing state no input stream opened by the
\* recorder is still open.
C14_StreamClosed ==
    WindowState \in {"Idle", "Transcribing"} => stream \in {"none", "closed"}

StartOps == {"start_recording", "start_recording_error"}

\* C15 as stated: right after stop() has returned the recorder's chunk
\* buffer is empty.
C15_ClearedOnStop ==
    last.op = "stop_recording" => audio_data = << >>

\* C15 as amended: stop() leaves the chunk buffer as it is, and every call
\* of start(), successful or failing, leaves it empty; nothing else empties it.
C15_ClearedOnStart ==
    /\ [](last.op \in StartOps => audio_data = << >>)
    /\ [][(last'.op = "stop_recording" => audio_data' = audio_data)
          /\ ((audio_data # << >> /\ audio_data' = << >>) =>
                 last'.op \in StartOps)]_vars

C15_Witness ==
    /\ last.op = "stop_recording"
    /\ audio_data # << >>
    /\ ~recording
    /\ stream = "closed"

\* C19: the sequence stop() returns is made of the chunks appended since the
\* most recent start(), whether or not earlier sessions captured audio or
\* earlier starts failed.
C19_NoLeak ==
    last.op = "stop_recording" => audio = concatenate(session_chunks)

C19_Witness ==
    /\ last.op = "stop_recording"
    /\ audio # << >>
    /\ clipboard # << >>
    /\ session_chunks # << >>

\* C16: in every Idle state the record control is enabled and labelled to
\* start and the status line shows ready.
C16_IdleLooksReady ==
    WindowState = "Idle" =>
        /\ record_btn = [text |-> "start", enabled |-> TRUE]
        /\ status_label = <<"Bereit">>

\* C17: a staged file is removed only by an outcome handler, the file
\* removed is the one given to the worker that sent the signal, and no worker
\* that has yet to finish transcribe holds it; from the start of a worker to
\* the handling of its signal temp_audio_path stays the worker's path and the
\* file stays on disk.
C17_NoEarlyUnlink ==
    /\ [](/\ \A w \in WorkerIds : BeforeEmit(w) =>
               /\ workers[w].audio_path = temp_audio_path
               /\ workers[w].audio_path \in files
          /\ \A i \in 1..Len(signals) :
               /\ workers[signals[i].sender].audio_path = temp_audio_path
               /\ temp_audio_path \in files)
    /\ [][(files' # files /\ files' \subseteq files) =>
             /\ last'.op \in OutcomeOps
             /\ files \ files' = {last'.path}
             /\ \A w \in WorkerIds :
                  workers[w].audio_path = last'.path => ~BeforeEmit(w)]_vars

C17_Witness ==
    /\ last.op \in OutcomeOps
    /\ last.path = temp_audio_path
    /\ last.path \notin files
    /\ \E w \in WorkerIds :
         workers[w].audio_path = last.path /\ workers[w].pc = "emitted"

====
